---------------------------- MODULE Spec2Model ----------------------------
(***************************************************************************)
(* A model of PokemonPicker.tsx (src/unnamed/part_000), the one component  *)
(* of simple-pokedex that holds logic: the catalog loads, the resolution   *)
(* of the selected game to a generation, the cumulative species filter     *)
(* with its deferred selection repair, the cached detail fetch, and the    *)
(* generation-aware projections of a detail record.                        *)
(*                                                                         *)
(* Strings that the code compares or transforms (names, sorted with        *)
(* localeCompare, capitalised with cap) are sequences of character codes;  *)
(* strings the code only stores or tests for presence (urls, messages,     *)
(* image references) are TLA+ strings.  "" of a name is <<>>.              *)
(*                                                                         *)
(* One step of the model is one task of the event loop: the handler or     *)
(* await-continuation, the batched setState calls it makes, the re-render  *)
(* (useMemo) and the effects whose dependencies changed.  Microtasks run   *)
(* before any other task: a callback given to queueMicrotask, and the      *)
(* continuation of an await whose fetch an effect's cleanup aborted        *)
(* (abort() rejects the pending promise at once).                          *)
(***************************************************************************)
EXTENDS Integers, Sequences, FiniteSets, TLC

\* ------------------------------------------------------------------ bounds
MaxSpecies == 3
MaxGens == 2
MaxVersions == 2
MaxUserEvents == 2

\* ------------------------------------------------------- upstream universe
\* "mew", "absol", "onix", "abra", "muk": the upstream lists by id, not by name
SpeciesPool ==
  << <<109,101,119>>, <<97,98,115,111,108>>, <<111,110,105,120>>,
     <<97,98,114,97>>, <<109,117,107>> >>

\* the generation slugs "generation-ix", "-v", "-i", "-ii", each without
\* the "generation-" they share, which decides no comparison between them
GenPool == << <<105,120>>, <<118>>, <<105>>, <<105,105>> >>

\* "red", "gold", "blue", "pearl"
VersionPool ==
  << <<114,101,100>>, <<103,111,108,100>>, <<98,108,117,101>>,
     <<112,101,97,114,108>> >>

SpeciesNames == {SpeciesPool[i] : i \in {j \in 1..Len(SpeciesPool) : j <= MaxSpecies}}
GenNames == {GenPool[i] : i \in {j \in 1..Len(GenPool) : j <= MaxGens}}
VersionNames == {VersionPool[i] : i \in {j \in 1..Len(VersionPool) : j <= MaxVersions}}

\* type NamedAPIRef = { name: string; url: string }
Ref(kind, n) == [name |-> n, url |-> <<kind, n>>]

SpeciesRefs == {Ref("pokemon", n) : n \in SpeciesNames}
GenRefs == {Ref("generation", n) : n \in GenNames}
VersionRefs == {Ref("version", n) : n \in VersionNames}

\* every sequence without repetition over a subset of S: the result lists
\* the upstream may return, in any order
RECURSIVE Perms(_)
Perms(S) ==
  IF S = {} THEN {<<>>}
  ELSE UNION {{<<x>> \o p : p \in Perms(S \ {x})} : x \in S}

ListsOver(S) == UNION {Perms(T) : T \in SUBSET S}

\* a whole catalog in any order, or none of it
CatalogOrNone(S) == Perms(S) \cup {<<>>}

\* ------------------------------------------------------------ pure helpers
Range(s) == {s[i] : i \in 1..Len(s)}

\* a.localeCompare(b) for names of lower-case letters, digits and hyphens:
\* the order of the first differing character, a proper prefix first
RECURSIVE localeCompare(_, _)
localeCompare(a, b) ==
  IF a = <<>> /\ b = <<>> THEN 0
  ELSE IF a = <<>> THEN -1
  ELSE IF b = <<>> THEN 1
  ELSE IF Head(a) < Head(b) THEN -1
  ELSE IF Head(a) > Head(b) THEN 1
  ELSE localeCompare(Tail(a), Tail(b))

\* list.slice().sort((a, b) => a.name.localeCompare(b.name)): the sort is
\* stable, so an element goes after those below it and those equal to it
\* that came before it
SortByName(list) ==
  LET n == Len(list)
      before(j, k) ==
        LET c == localeCompare(list[j].name, list[k].name)
        IN c < 0 \/ (c = 0 /\ j < k)
      rank(k) == Cardinality({j \in 1..n : before(j, k)}) + 1
  IN [i \in 1..n |-> list[CHOOSE k \in 1..n : rank(k) = i]]

\* list.filter(keep)
RECURSIVE FilterAllowed(_, _)
FilterAllowed(list, allowed) ==
  IF list = <<>> THEN <<>>
  ELSE (IF Head(list).name \in allowed THEN <<Head(list)>> ELSE <<>>)
         \o FilterAllowed(Tail(list), allowed)

\* ordered.indexOf(x), 1-based; 0 stands for the code's -1
RECURSIVE IndexFrom(_, _, _)
IndexFrom(ordered, x, i) ==
  IF i > Len(ordered) THEN 0
  ELSE IF ordered[i] = x THEN i
  ELSE IndexFrom(ordered, x, i + 1)

indexOf(ordered, x) == IndexFrom(ordered, x, 1)

\* const cap = (s) => (s ? s.charAt(0).toUpperCase() + s.slice(1) : s)
cap(s) ==
  IF s = <<>> THEN s
  ELSE <<(IF Head(s) >= 97 /\ Head(s) <= 122 THEN Head(s) - 32 ELSE Head(s))>>
         \o Tail(s)


\* JS null / undefined of a string-valued slot (error, image reference)
null == "null"

\* ------------------------------------------------- projections of a detail
\* A PokemonDetails record is [id, name, types, past_types, sprites]: types
\* is the sequence of t.type.name; past_types (?? []) a sequence of
\* [generation, types]; sprites is [front_default, versions], versions a
\* function from generation names to blocks, a block the sequence of its
\* variants' [variant, front_default] in Object.values order.

\* the scan that stops at the first variant, image or none
ImageOfFirstVariant(genBlock, fallback) ==
  IF genBlock = <<>> THEN fallback
  ELSE IF Head(genBlock).front_default # null THEN Head(genBlock).front_default
  ELSE fallback

\* for (const sub of Object.values(genBlock)) if (sub.front_default) return ...
RECURSIVE FirstImage(_, _)
FirstImage(genBlock, fallback) ==
  IF genBlock = <<>> THEN fallback
  ELSE IF Head(genBlock).front_default # null THEN Head(genBlock).front_default
  ELSE FirstImage(Tail(genBlock), fallback)

pickSpriteForGeneration(sprites, genName) ==
  IF genName \notin DOMAIN sprites.versions
    THEN sprites.front_default
    ELSE FirstImage(sprites.versions[genName], sprites.front_default)

\* the lookup that takes the earliest past entry, whatever its generation
EarliestPast(past, genName) ==
  IF past = <<>> THEN <<>> ELSE <<Head(past)>>

\* past.find((p) => p.generation?.name === genName): <<>> when none matches
RECURSIVE FindPast(_, _)
FindPast(past, genName) ==
  IF past = <<>> THEN <<>>
  ELSE IF Head(past).generation = genName THEN <<Head(past)>>
  ELSE FindPast(Tail(past), genName)

MapCap(arr) == [i \in 1..Len(arr) |-> cap(arr[i])]

typesForGeneration(pokemon, genName) ==
  IF genName = <<>> THEN MapCap(pokemon.types)
  ELSE LET match == FindPast(pokemon.past_types, genName)
       IN MapCap(IF match # <<>> THEN match[1].types ELSE pokemon.types)

\* ------------------------------------------------------------------- state
VARIABLES
  allList,            \* useState: the species catalog
  versions,           \* useState: the game catalog
  generations,        \* useState: the generation catalog
  speciesByGen,       \* useState: generation name -> set of species names
  selectedName,       \* useState: the chosen species
  selectedVersionUrl, \* useState: the chosen game
  selectedGenName,    \* useState: the resolved generation
  data,               \* useState: the displayed detail, <<>> for null
  loadingList, loadingMeta, loadingPokemon,
  error,              \* useState: the error slot
  cacheRef,           \* useRef: species name -> detail
  filteredList,       \* useMemo: the filtered species list
  displaySprite, displayTypes,  \* the render's projections of data
  microtasks,         \* the microtask queue: [kind, name, pc]
  listFetch,          \* effect 1: "pending" or "done"
  metaLoad,           \* effect 2: [pc, gens, i, map]
  resolveTasks,       \* effect 3: in-flight resolutions [url, pc]
  detailTasks,        \* effect 5: in-flight detail fetches [name]
  userEvents,         \* how many selections the user has made
  mounted,            \* the component is mounted: its cleanups have not run
  upstreamGen         \* the upstream's data: version name -> the name of
                      \* the generation of its version group, <<>> for none

vars ==
  << allList, versions, generations, speciesByGen, selectedName,
     selectedVersionUrl, selectedGenName, data, loadingList, loadingMeta,
     loadingPokemon, error, cacheRef, filteredList, displaySprite,
     displayTypes, microtasks, listFetch, metaLoad, resolveTasks,
     detailTasks, userEvents, mounted, upstreamGen >>

\* the component's state and in-flight work as one record, on which the
\* handlers below act
S ==
  [ allList |-> allList, versions |-> versions, generations |-> generations,
    speciesByGen |-> speciesByGen, selectedName |-> selectedName,
    selectedVersionUrl |-> selectedVersionUrl,
    selectedGenName |-> selectedGenName, data |-> data,
    loadingList |-> loadingList, loadingMeta |-> loadingMeta,
    loadingPokemon |-> loadingPokemon, error |-> error,
    cacheRef |-> cacheRef, microtasks |-> microtasks,
    listFetch |-> listFetch, metaLoad |-> metaLoad,
    resolveTasks |-> resolveTasks, detailTasks |-> detailTasks,
    userEvents |-> userEvents, mounted |-> mounted ]

\* ------------------------------------------------- 4) the filtered list
\* for (let i = 0; i <= idx; i++) for (name of speciesByGen[ordered[i]] ?? [])
\*   allowed.add(name)
\* the loop with i < idx for its bound
AllowedBelow(ordered, byGen, idx) ==
  UNION {IF ordered[i] \in DOMAIN byGen THEN byGen[ordered[i]] ELSE {} :
           i \in 1..(idx - 1)}

\* the loop replaced by the one entry of the resolved generation
AllowedOnlyAt(ordered, byGen, idx) ==
  IF idx > 0 /\ ordered[idx] \in DOMAIN byGen THEN byGen[ordered[idx]] ELSE {}

RECURSIVE AllowedUpTo(_, _, _)
AllowedUpTo(ordered, byGen, idx) ==
  IF idx = 0 THEN {}
  ELSE AllowedUpTo(ordered, byGen, idx - 1)
         \cup (IF ordered[idx] \in DOMAIN byGen THEN byGen[ordered[idx]] ELSE {})

\* the callback with its return on idx === -1 left out
FilterWithoutNotFound(st) ==
  IF st.selectedGenName = <<>> \/ st.generations = <<>>
     \/ DOMAIN st.speciesByGen = {}
    THEN [list |-> st.allList, repair |-> <<>>]
    ELSE
      LET ordered == [i \in 1..Len(st.generations) |-> st.generations[i].name]
          allowed == AllowedUpTo(ordered, st.speciesByGen,
                                 indexOf(ordered, st.selectedGenName))
          arr == SortByName(FilterAllowed(st.allList, allowed))
      IN [ list |-> arr,
           repair |->
             IF arr # <<>> /\ \A i \in 1..Len(arr) : arr[i].name # st.selectedName
               THEN <<[kind |-> "repair", name |-> arr[1].name, pc |-> "queued"]>>
               ELSE <<>> ]

\* the callback queueing its repair whether or not the chosen name is in arr
FilterAlwaysRepairing(st) ==
  IF st.selectedGenName = <<>> \/ st.generations = <<>>
     \/ DOMAIN st.speciesByGen = {}
    THEN [list |-> st.allList, repair |-> <<>>]
    ELSE
      LET ordered == [i \in 1..Len(st.generations) |-> st.generations[i].name]
          idx == indexOf(ordered, st.selectedGenName)
      IN IF idx = 0 THEN [list |-> st.allList, repair |-> <<>>]
         ELSE
           LET allowed == AllowedUpTo(ordered, st.speciesByGen, idx)
               arr == SortByName(FilterAllowed(st.allList, allowed))
           IN [ list |-> arr,
                repair |->
                  IF arr # <<>>
                    THEN <<[kind |-> "repair", name |-> arr[1].name, pc |-> "queued"]>>
                    ELSE <<>> ]

\* the useMemo callback: [list |-> its value, repair |-> the microtasks it
\* queues with queueMicrotask(() => setSelectedName(arr[0].name))]
ComputeFilteredList(st) ==
  IF st.selectedGenName = <<>> \/ st.generations = <<>>
     \/ DOMAIN st.speciesByGen = {}
    THEN [list |-> st.allList, repair |-> <<>>]
    ELSE
      LET ordered == [i \in 1..Len(st.generations) |-> st.generations[i].name]
          idx == indexOf(ordered, st.selectedGenName)
      IN IF idx = 0 THEN [list |-> st.allList, repair |-> <<>>]
         ELSE
           LET allowed == AllowedUpTo(ordered, st.speciesByGen, idx)
               arr == SortByName(FilterAllowed(st.allList, allowed))
           IN [ list |-> arr,
                repair |->
                  IF arr # <<>> /\ \A i \in 1..Len(arr) : arr[i].name # st.selectedName
                    THEN <<[kind |-> "repair", name |-> arr[1].name, pc |-> "queued"]>>
                    ELSE <<>> ]

MemoDeps(st) ==
  << st.allList, st.generations, st.selectedGenName, st.speciesByGen,
     st.selectedName >>

\* useMemo: the callback runs only in a render whose dependencies changed
Memo(prev, cur, prevList) ==
  IF MemoDeps(cur) = MemoDeps(prev)
    THEN [list |-> prevList, repair |-> <<>>]
    ELSE ComputeFilteredList(cur)

\* ------------------------------------------------------ effects 3) and 5)
RECURSIVE SetToSeq(_)
SetToSeq(T) ==
  IF T = {} THEN <<>>
  ELSE LET t == CHOOSE x \in T : TRUE IN <<t>> \o SetToSeq(T \ {t})

\* return () => abort.abort(), for the resolutions in flight: each pending
\* await rejects with AbortError, its continuation a microtask
AbortResolves(tasks) ==
  SetToSeq({[kind |-> "resolveAborted", name |-> t.url[2], pc |-> t.pc] : t \in tasks})

\* return () => abort.abort(), for the detail fetches in flight
AbortDetails(tasks) ==
  SetToSeq({[kind |-> "detailAborted", name |-> t.name, pc |-> "fetch"] : t \in tasks})

\* effect 3 without its cleanup: the resolutions in flight stay in flight
Effect3WithoutAbort(prev, u) ==
  IF u.selectedVersionUrl = prev.selectedVersionUrl THEN u
  ELSE IF u.selectedVersionUrl = <<>>
    THEN [u EXCEPT !.selectedGenName = <<>>]
    ELSE [u EXCEPT
            !.resolveTasks = @ \cup {[url |-> u.selectedVersionUrl, pc |-> "version"]},
            !.error = null]

\* 3) useEffect(..., [selectedVersionUrl]): the cleanup of the previous run
\* aborts its controller, then the body runs up to its first await
Effect3(prev, u) ==
  IF u.selectedVersionUrl = prev.selectedVersionUrl THEN u
  ELSE LET c == [u EXCEPT !.resolveTasks = {},
                          !.microtasks = @ \o AbortResolves(u.resolveTasks)]
       IN IF c.selectedVersionUrl = <<>>
            THEN [c EXCEPT !.selectedGenName = <<>>]
            ELSE [c EXCEPT
                    !.resolveTasks = {[url |-> c.selectedVersionUrl, pc |-> "version"]},
                    !.error = null]

\* effect 5 without its cleanup: the detail fetches in flight stay in flight
Effect5WithoutAbort(prev, u) ==
  IF u.selectedName = prev.selectedName THEN u
  ELSE IF u.selectedName = <<>> THEN [u EXCEPT !.data = <<>>]
  ELSE IF u.selectedName \in DOMAIN u.cacheRef
    THEN [u EXCEPT !.data = <<u.cacheRef[u.selectedName]>>]
  ELSE [u EXCEPT !.detailTasks = @ \cup {[name |-> u.selectedName]},
                 !.loadingPokemon = TRUE,
                 !.error = null]

\* effect 5 without its look into the cache
Effect5WithoutCache(prev, u) ==
  IF u.selectedName = prev.selectedName THEN u
  ELSE LET c == [u EXCEPT !.detailTasks = {},
                          !.microtasks = @ \o AbortDetails(u.detailTasks)]
       IN IF c.selectedName = <<>> THEN [c EXCEPT !.data = <<>>]
          ELSE [c EXCEPT !.detailTasks = {[name |-> c.selectedName]},
                         !.loadingPokemon = TRUE,
                         !.error = null]

\* 5) useEffect(..., [selectedName]): cleanup, then the body up to its await
Effect5(prev, u) ==
  IF u.selectedName = prev.selectedName THEN u
  ELSE LET c == [u EXCEPT !.detailTasks = {},
                          !.microtasks = @ \o AbortDetails(u.detailTasks)]
       IN IF c.selectedName = <<>> THEN [c EXCEPT !.data = <<>>]
          ELSE IF c.selectedName \in DOMAIN c.cacheRef
            THEN [c EXCEPT !.data = <<c.cacheRef[c.selectedName]>>]
          ELSE [c EXCEPT !.detailTasks = {[name |-> c.selectedName]},
                         !.loadingPokemon = TRUE,
                         !.error = null]

Effects(prev, u) == Effect5(prev, Effect3(prev, u))

\* const displaySprite = data ? pick(...) || data.sprites.front_default : null
DisplaySprite(st) ==
  IF st.data = <<>> THEN null
  ELSE LET picked == pickSpriteForGeneration(st.data[1].sprites, st.selectedGenName)
       IN IF picked # null THEN picked ELSE st.data[1].sprites.front_default

\* const displayTypes = data ? typesForGeneration(data, selectedGenName) : []
DisplayTypes(st) ==
  IF st.data = <<>> THEN <<>>
  ELSE typesForGeneration(st.data[1], st.selectedGenName)

\* One task of the event loop after its handler left the state u: the
\* render of the batched updates (m1), the effects whose dependencies
\* changed (v), and the render of what the effects set (m2).
React(handled) ==
  \E u \in {handled} :
  \E m1 \in {Memo(S, u, filteredList)} :
  \E v \in {Effects(S, [u EXCEPT !.microtasks = @ \o m1.repair])} :
  \E m2 \in {Memo(u, v, m1.list)} :
     /\ allList' = v.allList
     /\ versions' = v.versions
     /\ generations' = v.generations
     /\ speciesByGen' = v.speciesByGen
     /\ selectedName' = v.selectedName
     /\ selectedVersionUrl' = v.selectedVersionUrl
     /\ selectedGenName' = v.selectedGenName
     /\ data' = v.data
     /\ loadingList' = v.loadingList
     /\ loadingMeta' = v.loadingMeta
     /\ loadingPokemon' = v.loadingPokemon
     /\ error' = v.error
     /\ cacheRef' = v.cacheRef
     /\ filteredList' = m2.list
     /\ displaySprite' = DisplaySprite(v)
     /\ displayTypes' = DisplayTypes(v)
     /\ microtasks' = v.microtasks \o m2.repair
     /\ listFetch' = v.listFetch
     /\ metaLoad' = v.metaLoad
     /\ resolveTasks' = v.resolveTasks
     /\ detailTasks' = v.detailTasks
     /\ userEvents' = v.userEvents
     /\ mounted' = v.mounted
     /\ upstreamGen' = upstreamGen

\* the message a failed fetch leaves in e.message: the text of the Error
\* thrown on !res.ok, or the TypeError of a transport failure
FailureKinds == {"status", "transport"}
ErrorMessage(kind, thrown) == IF kind = "status" THEN thrown ELSE "Failed to fetch"

\* a macrotask runs only when the microtask queue is drained
Idle == microtasks = <<>>

\* ------------------------------------------------------------- microtask
\* queueMicrotask(() => setSelectedName(arr[0].name))
RunRepair ==
  /\ microtasks # <<>> /\ Head(microtasks).kind = "repair"
  /\ React([S EXCEPT !.selectedName = Head(microtasks).name,
                     !.microtasks = Tail(microtasks)])

\* ------------------------------------------- 1) load all Pokemon names
ListOk(results) ==
  /\ Idle /\ listFetch = "pending"
  /\ LET sorted == SortByName(results)
     IN React([S EXCEPT
                 !.allList = sorted,
                 !.selectedName = IF sorted # <<>> THEN sorted[1].name ELSE @,
                 !.loadingList = FALSE,
                 !.listFetch = "done"])

ListFail(kind) ==
  /\ Idle /\ listFetch = "pending"
  /\ React([S EXCEPT !.error = ErrorMessage(kind, "List fetch failed"),
                     !.loadingList = FALSE,
                     !.listFetch = "done"])

\* ------------------------- 2) load versions and generations, species sets
VersionsOk(results) ==
  /\ Idle /\ metaLoad.pc = "versions"
  /\ LET vList == SortByName(results)
     IN React([S EXCEPT
                 !.versions = vList,
                 !.selectedVersionUrl = IF vList # <<>> THEN vList[1].url ELSE @,
                 !.metaLoad.pc = "generations"])

\* the catch and finally of effect 2, after a failure at any of its awaits
MetaFailed(st, message) ==
  [st EXCEPT !.error = message, !.loadingMeta = FALSE, !.metaLoad.pc = "done"]

VersionsFail(kind) ==
  /\ Idle /\ metaLoad.pc = "versions"
  /\ React(MetaFailed(S, ErrorMessage(kind, "Versions fetch failed")))

\* setSpeciesByGen(map) and the finally, once the loop over gens is through
MetaDone(st, map) ==
  [st EXCEPT !.speciesByGen = map, !.loadingMeta = FALSE, !.metaLoad.pc = "done"]

GenerationsOk(results) ==
  /\ Idle /\ metaLoad.pc = "generations"
  /\ LET gens == SortByName(results)
         st == [S EXCEPT !.generations = gens]
     IN React(IF gens = <<>> THEN MetaDone(st, <<>>)
              ELSE [st EXCEPT !.metaLoad =
                      [pc |-> "detail", gens |-> gens, i |-> 1, map |-> <<>>]])

GenerationsFail(kind) ==
  /\ Idle /\ metaLoad.pc = "generations"
  /\ React(MetaFailed(S, ErrorMessage(kind, "Generations fetch failed")))

\* the pokemon_species the upstream serves for a generation: the species
\* it introduced, here the one of the same rank in the pool, if any
UpstreamGenSpecies(genName) ==
  {SpeciesPool[i] : i \in {j \in 1..Len(SpeciesPool) :
                             j <= Len(GenPool) /\ GenPool[j] = genName}}

\* the loop publishing the index after each generation's answer
GenDetailOkPublishing ==
  /\ Idle /\ metaLoad.pc = "detail"
  /\ LET gen == metaLoad.gens[metaLoad.i]
         map == (gen.name :> UpstreamGenSpecies(gen.name)) @@ metaLoad.map
     IN React(IF metaLoad.i = Len(metaLoad.gens) THEN MetaDone(S, map)
              ELSE [S EXCEPT !.metaLoad.map = map, !.metaLoad.i = @ + 1,
                             !.speciesByGen = map])

\* map[gen.name] = new Set(det.pokemon_species.map((s) => s.name))
GenDetailOk ==
  /\ Idle /\ metaLoad.pc = "detail"
  /\ LET gen == metaLoad.gens[metaLoad.i]
         map == (gen.name :> UpstreamGenSpecies(gen.name)) @@ metaLoad.map
     IN React(IF metaLoad.i = Len(metaLoad.gens) THEN MetaDone(S, map)
              ELSE [S EXCEPT !.metaLoad.map = map, !.metaLoad.i = @ + 1])

GenDetailFail(kind) ==
  /\ Idle /\ metaLoad.pc = "detail"
  /\ React(MetaFailed(S, ErrorMessage(kind, "Generation detail failed")))

\* ------------------------------ 3) resolve the selected game's generation
\* the version answer with a missing version group thrown as a failure
VersionOkAbsenceThrown(t, hasGroup) ==
  /\ Idle /\ t \in resolveTasks /\ t.pc = "version"
  /\ React(IF hasGroup
             THEN [S EXCEPT !.resolveTasks =
                     (@ \ {t}) \cup {[t EXCEPT !.pc = "group"]}]
             ELSE [S EXCEPT !.resolveTasks = @ \ {t},
                            !.error = "Failed to resolve game generation"])

\* fetch(selectedVersionUrl) answered: version.version_group?.url
VersionOk(t, hasGroup) ==
  /\ Idle /\ t \in resolveTasks /\ t.pc = "version"
  /\ React(IF hasGroup
             THEN [S EXCEPT !.resolveTasks =
                     (@ \ {t}) \cup {[t EXCEPT !.pc = "group"]}]
             ELSE [S EXCEPT !.resolveTasks = @ \ {t},
                            !.selectedGenName = <<>>])

VersionFail(t, kind) ==
  /\ Idle /\ t \in resolveTasks /\ t.pc = "version"
  /\ React([S EXCEPT !.resolveTasks = @ \ {t},
                     !.error = ErrorMessage(kind, "Version fetch failed")])

\* fetch(vgUrl) answered: genName = vg.generation?.name ?? ""
GroupOk(t, genName) ==
  /\ Idle /\ t \in resolveTasks /\ t.pc = "group"
  /\ React([S EXCEPT !.resolveTasks = @ \ {t},
                     !.selectedGenName = genName])

GroupFail(t, kind) ==
  /\ Idle /\ t \in resolveTasks /\ t.pc = "group"
  /\ React([S EXCEPT !.resolveTasks = @ \ {t},
                     !.error = ErrorMessage(kind, "Version group fetch failed")])

\* the catch of effect 3 without its test of e.name
ResolveAbortedSurfaced ==
  /\ microtasks # <<>> /\ Head(microtasks).kind = "resolveAborted"
  /\ React([S EXCEPT !.microtasks = Tail(microtasks),
                     !.error = "The operation was aborted."])

\* the pending await of an aborted resolution rejected with AbortError,
\* which the catch swallows
ResolveAborted ==
  /\ microtasks # <<>> /\ Head(microtasks).kind = "resolveAborted"
  /\ React([S EXCEPT !.microtasks = Tail(microtasks)])

\* ------------------------------------- 5) fetch the selected Pokemon
\* "fairy", "normal"
Fairy == <<102,97,105,114,121>>
Normal == <<110,111,114,109,97,108>>

\* the record the upstream serves for /pokemon/<name>
UpstreamPokemon(n) ==
  [ id |-> CHOOSE i \in 1..Len(SpeciesPool) : SpeciesPool[i] = n,
    name |-> n,
    types |-> <<Fairy>>,
    past_types |-> <<[generation |-> GenPool[1], types |-> <<Normal>>]>>,
    sprites |->
      [ front_default |-> "front.png",
        versions |->
          GenPool[1] :>
            << [variant |-> "red-blue", front_default |-> null],
               [variant |-> "yellow", front_default |-> "yellow.png"] >> ] ]

\* the answer handled without the finally that turns the flag off
DetailOkWithoutFinally(t) ==
  /\ Idle /\ t \in detailTasks
  /\ LET json == UpstreamPokemon(t.name)
     IN React([S EXCEPT !.detailTasks = @ \ {t},
                        !.cacheRef = (t.name :> json) @@ @,
                        !.data = <<json>>])

\* the answer handled with a cache that holds the last record only
DetailOkEvicting(t) ==
  /\ Idle /\ t \in detailTasks
  /\ LET json == UpstreamPokemon(t.name)
     IN React([S EXCEPT !.detailTasks = @ \ {t},
                        !.cacheRef = (t.name :> json),
                        !.data = <<json>>,
                        !.loadingPokemon = FALSE])

DetailOk(t) ==
  /\ Idle /\ t \in detailTasks
  /\ LET json == UpstreamPokemon(t.name)
     IN React([S EXCEPT !.detailTasks = @ \ {t},
                        !.cacheRef = (t.name :> json) @@ @,
                        !.data = <<json>>,
                        !.loadingPokemon = FALSE])

\* the failure handled by taking the displayed detail away
DetailFailClearing(t, kind) ==
  /\ Idle /\ t \in detailTasks
  /\ React([S EXCEPT !.detailTasks = @ \ {t},
                     !.error = ErrorMessage(kind, "Pokemon fetch failed"),
                     !.data = <<>>,
                     !.loadingPokemon = FALSE])

DetailFail(t, kind) ==
  /\ Idle /\ t \in detailTasks
  /\ React([S EXCEPT !.detailTasks = @ \ {t},
                     !.error = ErrorMessage(kind, "Pokemon fetch failed"),
                     !.loadingPokemon = FALSE])

\* the fetch of an aborted run rejected with AbortError: no setError, but
\* the finally still runs
DetailAborted ==
  /\ microtasks # <<>> /\ Head(microtasks).kind = "detailAborted"
  /\ React([S EXCEPT !.microtasks = Tail(microtasks),
                     !.loadingPokemon = FALSE])

\* ------------------------------------------------------------ the selects
\* <select id="game-select" onChange={(e) => setSelectedVersionUrl(...)}>
SelectGame(url) ==
  /\ Idle /\ userEvents < MaxUserEvents
  /\ ~loadingMeta /\ versions # <<>>
  /\ url \in {versions[i].url : i \in 1..Len(versions)}
  /\ url # selectedVersionUrl
  /\ React([S EXCEPT !.selectedVersionUrl = url, !.userEvents = @ + 1])

\* <select id="pokemon-select" onChange={(e) => setSelectedName(...)}>
SelectPokemon(name) ==
  /\ Idle /\ userEvents < MaxUserEvents
  /\ ~loadingList /\ ~loadingMeta
  /\ name \in {filteredList[i].name : i \in 1..Len(filteredList)}
  /\ name # selectedName
  /\ React([S EXCEPT !.selectedName = name, !.userEvents = @ + 1])

\* ------------------------------------------------- the upstream's games
\* what the upstream serves as the generation of a game's version group:
\* all games of one generation, or of none
OneGenerationMaps ==
  {[v \in VersionNames |-> g] : g \in GenNames \cup {<<>>}}

\* each game of the generation of its own rank, if there is one
GenerationOfRank(v) ==
  LET k == CHOOSE i \in 1..Len(VersionPool) : VersionPool[i] = v
  IN IF k <= Len(GenPool) /\ GenPool[k] \in GenNames THEN GenPool[k] ELSE <<>>

UpstreamMaps ==
  OneGenerationMaps \cup {[v \in VersionNames |-> GenerationOfRank(v)]}

\* ------------------------------------------------------- the component
\* the state after the mount: the first render and the first run of the
\* five effects
Init ==
  /\ allList = <<>> /\ versions = <<>> /\ generations = <<>>
  /\ speciesByGen = <<>>
  /\ selectedName = <<>> /\ selectedVersionUrl = <<>> /\ selectedGenName = <<>>
  /\ data = <<>>
  /\ loadingList = TRUE /\ loadingMeta = TRUE /\ loadingPokemon = FALSE
  /\ error = null
  /\ cacheRef = <<>>
  /\ filteredList = <<>>
  /\ displaySprite = null /\ displayTypes = <<>>
  /\ microtasks = <<>>
  /\ listFetch = "pending"
  /\ metaLoad = [pc |-> "versions", gens |-> <<>>, i |-> 0, map |-> <<>>]
  /\ resolveTasks = {} /\ detailTasks = {}
  /\ userEvents = 0
  /\ mounted = TRUE
  /\ upstreamGen \in UpstreamMaps

Next ==
  \/ RunRepair
  \/ ResolveAborted
  \/ DetailAborted
  \/ \E results \in ListsOver(SpeciesRefs) : ListOk(results)
  \/ \E kind \in FailureKinds : ListFail(kind)
  \/ \E results \in CatalogOrNone(VersionRefs) : VersionsOk(results)
  \/ \E kind \in FailureKinds : VersionsFail(kind)
  \/ \E results \in CatalogOrNone(GenRefs) : GenerationsOk(results)
  \/ \E kind \in FailureKinds : GenerationsFail(kind)
  \/ GenDetailOk
  \/ \E kind \in FailureKinds : GenDetailFail(kind)
  \/ \E t \in resolveTasks, hasGroup \in BOOLEAN : VersionOk(t, hasGroup)
  \/ \E t \in resolveTasks, kind \in FailureKinds : VersionFail(t, kind)
  \/ \E t \in resolveTasks : GroupOk(t, upstreamGen[t.url[2]])
  \/ \E t \in resolveTasks, kind \in FailureKinds : GroupFail(t, kind)
  \/ \E t \in detailTasks : DetailOk(t)
  \/ \E t \in detailTasks, kind \in FailureKinds : DetailFail(t, kind)
  \/ \E url \in {r.url : r \in VersionRefs} : SelectGame(url)
  \/ \E name \in SpeciesNames : SelectPokemon(name)

Spec == Init /\ [][Next]_vars

\* ------------------------------------------------------- the teardown
\* The unmount runs the cleanup of every effect: return () => abort.abort().
\* Each fetch in flight rejects with AbortError; its continuation, a
\* microtask, swallows the error in its catch, and the setState calls of
\* its finally reach a component that is no longer mounted, which drops
\* them.
Unmount ==
  /\ Idle /\ mounted
  /\ mounted' = FALSE
  /\ microtasks' =
       (IF listFetch = "pending"
          THEN <<[kind |-> "listAborted", name |-> <<>>, pc |-> "fetch"]>>
          ELSE <<>>)
       \o (IF metaLoad.pc # "done"
             THEN <<[kind |-> "metaAborted", name |-> <<>>, pc |-> metaLoad.pc]>>
             ELSE <<>>)
       \o AbortResolves(resolveTasks) \o AbortDetails(detailTasks)
  /\ listFetch' = IF listFetch = "pending" THEN "aborted" ELSE listFetch
  /\ metaLoad' = [metaLoad EXCEPT !.pc = IF @ # "done" THEN "aborted" ELSE @]
  /\ resolveTasks' = {} /\ detailTasks' = {}
  /\ UNCHANGED << allList, versions, generations, speciesByGen, selectedName,
                  selectedVersionUrl, selectedGenName, data, loadingList,
                  loadingMeta, loadingPokemon, error, cacheRef, filteredList,
                  displaySprite, displayTypes, userEvents, upstreamGen >>

\* the continuation of a fetch aborted by the unmount
Discarded ==
  /\ ~mounted /\ microtasks # <<>>
  /\ microtasks' = Tail(microtasks)
  /\ UNCHANGED << allList, versions, generations, speciesByGen, selectedName,
                  selectedVersionUrl, selectedGenName, data, loadingList,
                  loadingMeta, loadingPokemon, error, cacheRef, filteredList,
                  displaySprite, displayTypes, listFetch, metaLoad,
                  resolveTasks, detailTasks, userEvents, mounted, upstreamGen >>

NextTeardown ==
  \/ mounted /\ Next
  \/ Unmount
  \/ Discarded

SpecTeardown == Init /\ [][NextTeardown]_vars

\* ------------------------------------------- every fetch answered well
\* The component on an upstream that answers every fetch with success.
\* A fetch that was not aborted is answered and a queued microtask runs;
\* nothing obliges the user to select.
Progress ==
  \/ RunRepair
  \/ ResolveAborted
  \/ DetailAborted
  \/ \E results \in ListsOver(SpeciesRefs) : ListOk(results)
  \/ \E results \in CatalogOrNone(VersionRefs) : VersionsOk(results)
  \/ \E results \in CatalogOrNone(GenRefs) : GenerationsOk(results)
  \/ GenDetailOk
  \/ \E t \in resolveTasks, hasGroup \in BOOLEAN : VersionOk(t, hasGroup)
  \/ \E t \in resolveTasks : GroupOk(t, upstreamGen[t.url[2]])
  \/ \E t \in detailTasks : DetailOk(t)

NextAnswered ==
  \/ Progress
  \/ \E url \in {r.url : r \in VersionRefs} : SelectGame(url)
  \/ \E name \in SpeciesNames : SelectPokemon(name)

SpecAnswered == Init /\ [][NextAnswered]_vars /\ WF_vars(Progress)

\* ------------------------------------------- the filter on any catalogs
\* The component with the load of effect 2 through, on any generation
\* catalog and any generation index (none, or one entry for each generation
\* of the catalog), the species list still loading and the resolution of
\* the first game waiting for its version-group answer.
LoadedVersions == SortByName(CHOOSE p \in Perms(VersionRefs) : TRUE)

GroupPending == {[url |-> LoadedVersions[1].url, pc |-> "group"]}

MetaLoaded(gens, index) ==
  /\ allList = <<>> /\ generations = gens /\ speciesByGen = index
  /\ versions = LoadedVersions
  /\ selectedVersionUrl = LoadedVersions[1].url
  /\ selectedGenName = <<>>
  /\ selectedName = <<>>
  /\ data = <<>>
  /\ cacheRef = <<>>
  /\ loadingList = TRUE /\ loadingMeta = FALSE /\ loadingPokemon = FALSE
  /\ error = null
  /\ filteredList = <<>>
  /\ displaySprite = null /\ displayTypes = <<>>
  /\ microtasks = <<>>
  /\ listFetch = "pending"
  /\ metaLoad = [pc |-> "done", gens |-> <<>>, i |-> 0, map |-> <<>>]
  /\ resolveTasks = GroupPending /\ detailTasks = {}
  /\ userEvents = 0
  /\ mounted = TRUE
  /\ upstreamGen \in OneGenerationMaps

InitFilter ==
  \E gens \in {SortByName(r) : r \in ListsOver(GenRefs)} :
    \E index \in {<<>>} \cup
                 [{gens[i].name : i \in 1..Len(gens)} -> SUBSET SpeciesNames] :
      MetaLoaded(gens, index)

NextFilter ==
  \/ \E results \in ListsOver(SpeciesRefs) : ListOk(results)
  \/ \E t \in resolveTasks : GroupOk(t, upstreamGen[t.url[2]])
  \/ RunRepair
  \/ DetailAborted

SpecFilter == InitFilter /\ [][NextFilter]_vars

\* --------------------------------------- the projections on any detail
\* The component showing its one species, the generation catalog having
\* come back empty, on any detail record: any current types, any past
\* entries (one for a generation at most) and any sprites, with the
\* resolution of the first game waiting for its version-group answer.
TypeLists == ListsOver({Fairy, Normal}) \ {<<>>}

\* the past entries: generations in any order, each with its types
PastTypeLists ==
  UNION {{[i \in 1..Len(o) |-> [generation |-> o[i], types |-> ts[i]]] :
            ts \in [1..Len(o) -> TypeLists]} :
           o \in ListsOver(GenNames)}

\* a block: variants in any Object.values order, each with its own image
\* or none
Blocks ==
  UNION {{[i \in 1..Len(o) |->
             [variant |-> o[i],
              front_default |-> IF has[i] THEN o[i] ELSE null]] :
            has \in [1..Len(o) -> BOOLEAN]} :
           o \in ListsOver({"red-blue", "yellow"})}

SpriteSets ==
  UNION {[front_default : {null, "front.png"}, versions : [G -> Blocks]] :
           G \in SUBSET GenNames}

Details ==
  LET base == UpstreamPokemon(SpeciesPool[1])
  IN {[base EXCEPT !.types = ts, !.past_types = past] :
        ts \in TypeLists, past \in PastTypeLists}
     \cup {[base EXCEPT !.sprites = sp] : sp \in SpriteSets}

Showing(detail) ==
  /\ allList = <<Ref("pokemon", detail.name)>>
  /\ generations = <<>> /\ speciesByGen = <<>>
  /\ versions = LoadedVersions
  /\ selectedVersionUrl = LoadedVersions[1].url
  /\ selectedGenName = <<>>
  /\ selectedName = detail.name
  /\ data = <<detail>>
  /\ cacheRef = (detail.name :> detail)
  /\ loadingList = FALSE /\ loadingMeta = FALSE /\ loadingPokemon = FALSE
  /\ error = null
  /\ filteredList = allList
  /\ displaySprite = DisplaySprite([data |-> data, selectedGenName |-> <<>>])
  /\ displayTypes = DisplayTypes([data |-> data, selectedGenName |-> <<>>])
  /\ microtasks = <<>>
  /\ listFetch = "done"
  /\ metaLoad = [pc |-> "done", gens |-> <<>>, i |-> 0, map |-> <<>>]
  /\ resolveTasks = GroupPending /\ detailTasks = {}
  /\ userEvents = 0
  /\ mounted = TRUE
  /\ upstreamGen \in OneGenerationMaps

InitProj == \E detail \in Details : Showing(detail)

NextProj ==
  \E t \in resolveTasks : GroupOk(t, upstreamGen[t.url[2]])

SpecProj == InitProj /\ [][NextProj]_vars

\* -------------------------------------------------------------- claims
Names(list) == {list[i].name : i \in 1..Len(list)}

IsSortedByName(list) ==
  \A i, j \in 1..Len(list) : i < j => localeCompare(list[i].name, list[j].name) < 0

Ordered == [i \in 1..Len(generations) |-> generations[i].name]

\* the filter's branch past its two fail-open returns
FilterApplies ==
  /\ selectedGenName # <<>>
  /\ generations # <<>>
  /\ DOMAIN speciesByGen # {}
  /\ selectedGenName \in Range(Ordered)

PositionOf(genName) == CHOOSE i \in 1..Len(generations) : Ordered[i] = genName

\* the species of the catalog named by the index entry of some generation
\* at or before position idx
CumulativeUpTo(idx) ==
  {r \in Range(allList) :
     \E i \in 1..idx : Ordered[i] \in DOMAIN speciesByGen
                        /\ r.name \in speciesByGen[Ordered[i]]}

\* C1: when the resolved generation is found at position idx of a non-empty
\* generation catalog and the index is non-empty, the filtered list holds
\* exactly the species of the catalog named in the index entries of the
\* generations at positions up to idx inclusive, once each, sorted by name
\* ascending.
C1_CumulativeFilter ==
  FilterApplies =>
    /\ Range(filteredList) = CumulativeUpTo(PositionOf(selectedGenName))
    /\ Len(filteredList) = Cardinality(Range(filteredList))
    /\ IsSortedByName(filteredList)

\* C1 witness: the filter ran for a generation at a later position and kept
\* a species that only an earlier generation's entry names, and dropped one
C1_Witness ==
  /\ FilterApplies
  /\ PositionOf(selectedGenName) > 1
  /\ Len(filteredList) >= 2
  /\ Len(filteredList) < Len(allList)
  /\ \E r \in Range(filteredList) : r.name \notin speciesByGen[selectedGenName]

FilteredFor(genName) == ComputeFilteredList([S EXCEPT !.selectedGenName = genName]).list

\* C2: for generations G1 before G2 in catalog order, every species of the
\* list filtered for G1 is in the list filtered for G2.
C2_MonotonicGrowth ==
  \A i, j \in 1..Len(generations) :
    i < j => Range(FilteredFor(Ordered[i])) \subseteq Range(FilteredFor(Ordered[j]))

\* C2 witness: the filter ran for the later of two generations, and the list
\* for the earlier one is a non-empty proper part of it
C2_Witness ==
  /\ FilterApplies
  /\ PositionOf(selectedGenName) = 2
  /\ filteredList = FilteredFor(Ordered[2])
  /\ Range(FilteredFor(Ordered[1])) # {}
  /\ Range(FilteredFor(Ordered[1])) # Range(filteredList)

\* C3: with an empty resolved generation, a resolved generation that is not
\* in the catalog, an empty generation catalog or an empty index, the
\* filtered list is the whole species catalog, which is sorted by name.
C3_FailOpen ==
  ~FilterApplies => (filteredList = allList /\ IsSortedByName(allList))

\* C3 witness: the filter ran for a generation that the non-empty catalog
\* does not hold, over a non-empty index that names none of the species
C3_Witness ==
  /\ selectedGenName # <<>>
  /\ generations # <<>>
  /\ DOMAIN speciesByGen # {}
  /\ selectedGenName \notin Range(Ordered)
  /\ \A g \in DOMAIN speciesByGen : speciesByGen[g] = {}
  /\ Len(filteredList) >= 2

\* C4: in every reachable state with a non-empty filtered list, the chosen
\* species is a member of the filtered list.
C4_SelectionInFilteredList ==
  filteredList # <<>> => selectedName \in Names(filteredList)

\* what does hold: the same, outside the window of a queued repair
C4_SettledSelectionInFilteredList ==
  (filteredList # <<>> /\ microtasks = <<>>) => selectedName \in Names(filteredList)

\* C4 witness: a render has left a non-empty filtered list without the
\* chosen species, whose reassignment is queued and has not run
C4_Witness ==
  /\ filteredList # <<>>
  /\ selectedName # <<>>
  /\ selectedName \notin Names(filteredList)
  /\ \E i \in 1..Len(microtasks) :
       microtasks[i].kind = "repair" /\ microtasks[i].name = filteredList[1].name

RepairsQueued ==
  Cardinality({i \in 1..Len(microtasks) : microtasks[i].kind = "repair"})

RepairQueued == RepairsQueued > 0

FilterInputs == <<allList, generations, speciesByGen, selectedGenName>>

\* the microtasks run: the event loop drains the queue before its next task
LiveSpec ==
  /\ Spec
  /\ WF_vars(RunRepair) /\ WF_vars(ResolveAborted) /\ WF_vars(DetailAborted)

\* C5: a chosen species left outside a non-empty filtered list becomes the
\* first element of the filtered list, with no repair queued any more; and
\* a step that leaves the filter inputs as they are (the repair's own
\* reassignment, a selection, a detail answer) queues no repair, so that
\* each reassignment leaves one repair fewer to run.
C5_SelectionRepair ==
  /\ (filteredList # <<>> /\ selectedName \notin Names(filteredList))
       ~> (~RepairQueued /\ filteredList # <<>>
           /\ selectedName = filteredList[1].name)
  /\ [][FilterInputs' = FilterInputs =>
          /\ RepairsQueued' <= RepairsQueued
          /\ (RepairQueued /\ selectedName' # selectedName)
               => RepairsQueued' < RepairsQueued]_vars

\* C5 witness: the repair has run: the first of a properly filtered list is
\* chosen, not the first of the catalog, and its detail fetch is under way
C5_Witness ==
  /\ FilterApplies
  /\ filteredList # <<>>
  /\ selectedName = filteredList[1].name
  /\ selectedName # allList[1].name
  /\ ~RepairQueued
  /\ detailTasks = {[name |-> selectedName]}

InFlightAborted(kind) ==
  {microtasks[i] : i \in {j \in 1..Len(microtasks) : microtasks[j].kind = kind}}

\* C6: a detail fetch in flight is the fetch of the chosen species, every
\* earlier one having been aborted when the choice changed; the answer of an
\* aborted fetch changes neither the displayed detail nor the cache; and
\* whenever a detail record comes to be displayed it is the record of the
\* species chosen in that step, whatever the order of the answers.
C6_DetailFetchCancellation ==
  /\ [](\A t \in detailTasks : t.name = selectedName)
  /\ [][(microtasks # <<>> /\ Head(microtasks).kind = "detailAborted")
          => (data' = data /\ cacheRef' = cacheRef /\ error' = error)]_vars
  /\ [][(data' # data /\ data' # <<>>) => data'[1].name = selectedName']_vars

\* C6 witness: the fetch for one species was aborted while in flight and
\* the fetch for the species chosen since is the only one in flight
C6_Witness ==
  /\ \E m \in InFlightAborted("detailAborted") : m.name # selectedName
  /\ detailTasks = {[name |-> selectedName]}
  /\ selectedName \notin DOMAIN cacheRef

\* C7: a resolution in flight is the resolution of the chosen version, every
\* earlier one having been aborted when the version changed; the answer of
\* an aborted resolution, at its version step or at its version-group step,
\* leaves the resolved generation as it is; and the resolved generation is
\* only ever written by a resolution of the version chosen at that step.
C7_ResolutionOrdering ==
  /\ [](\A t \in resolveTasks : t.url = selectedVersionUrl)
  /\ [][(microtasks # <<>> /\ Head(microtasks).kind = "resolveAborted")
          => selectedGenName' = selectedGenName]_vars
  /\ [][selectedGenName' # selectedGenName =>
          \E t \in resolveTasks \ resolveTasks' :
            t.url = selectedVersionUrl /\ selectedVersionUrl' = selectedVersionUrl]_vars

\* C7 witness: the resolution of one version was aborted at its second step,
\* the version-group fetch, and the resolution of the version chosen since
\* is the only one in flight, at its first step
C7_Witness ==
  /\ \E m \in InFlightAborted("resolveAborted") :
       m.pc = "group" /\ m.name # selectedVersionUrl[2]
  /\ resolveTasks = {[url |-> selectedVersionUrl, pc |-> "version"]}

Displayed(typeName) ==
  [i \in 1..Len(typeName) |->
     IF i = 1 /\ typeName[i] \in 97..122 THEN typeName[i] - 32 ELSE typeName[i]]

DisplayedAll(typeNames) == [i \in 1..Len(typeNames) |-> Displayed(typeNames[i])]

PastEntriesFor(genName) ==
  {i \in 1..Len(data[1].past_types) : data[1].past_types[i].generation = genName}

\* C9: the displayed types are, in their order and in displayed form, the
\* current types of the detail when the resolved generation is empty or no
\* past entry carries exactly its name, and otherwise the types of the past
\* entry that carries exactly its name, wherever it stands among the past
\* entries.
C9_TypesForGeneration ==
  data # <<>> =>
    IF selectedGenName = <<>> \/ PastEntriesFor(selectedGenName) = {}
      THEN displayTypes = DisplayedAll(data[1].types)
      ELSE \A i \in PastEntriesFor(selectedGenName) :
             displayTypes = DisplayedAll(data[1].past_types[i].types)

\* C9 witness: the types shown are the two of the second past entry, the
\* one of the resolved generation, neither the current types nor the types
\* of the first past entry
C9_Witness ==
  /\ data # <<>>
  /\ PastEntriesFor(selectedGenName) = {2}
  /\ Len(displayTypes) = 2
  /\ displayTypes = DisplayedAll(data[1].past_types[2].types)
  /\ displayTypes # DisplayedAll(data[1].types)
  /\ displayTypes # DisplayedAll(data[1].past_types[1].types)

WithImage(block) == {i \in 1..Len(block) : block[i].front_default # null}

\* C10: the displayed sprite is the default sprite of the detail, or none,
\* when the resolved generation is empty or the detail has no block for it;
\* otherwise it is the image of the first variant of the block, in the
\* block's order, that has one, and the default sprite when none has.
C10_PickSpriteForGeneration ==
  data # <<>> =>
    LET sprites == data[1].sprites
    IN IF selectedGenName = <<>> \/ selectedGenName \notin DOMAIN sprites.versions
         THEN displaySprite = sprites.front_default
         ELSE LET block == sprites.versions[selectedGenName]
              IN IF WithImage(block) = {}
                   THEN displaySprite = sprites.front_default
                   ELSE \E i \in WithImage(block) :
                          /\ \A j \in WithImage(block) : i <= j
                          /\ displaySprite = block[i].front_default

\* C10 witness: the block of the resolved generation has a first variant
\* without an image and a second with one, which is shown in place of the
\* default sprite
C10_Witness ==
  /\ data # <<>>
  /\ selectedGenName \in DOMAIN data[1].sprites.versions
  /\ WithImage(data[1].sprites.versions[selectedGenName]) = {2}
  /\ data[1].sprites.front_default # null
  /\ displaySprite = data[1].sprites.versions[selectedGenName][2].front_default
  /\ displaySprite # data[1].sprites.front_default

\* the messages of the two loads that run once, at the mount
LoadMessages ==
  { "List fetch failed", "Versions fetch failed", "Generations fetch failed",
    "Generation detail failed" }

\* C11: a message that the failure of the species-list load or of the
\* metadata load left in the error slot stays there until another message
\* replaces it: no step of another suspension point (its start, its empty
\* or cancelled outcome) empties the slot.
C11_ErrorsNotCleared ==
  [][(error \in LoadMessages) => (error' # null)]_vars

AbortKinds == {"listAborted", "metaAborted", "resolveAborted", "detailAborted"}

\* what a fetch writes when it is honored
Surfaces ==
  << error, allList, versions, generations, speciesByGen, selectedVersionUrl,
     selectedName, selectedGenName, data, cacheRef >>

\* C12: the continuation of a fetch that was aborted, by a change of its
\* trigger or by the unmount, leaves the error slot, the catalogs, the
\* index, the selections, the resolved generation, the displayed detail and
\* the cache as they are; and an aborted fetch is no longer in flight, so
\* that no answer of it is handled.
C12_CancelledNeverSurfaced ==
  /\ [][(microtasks # <<>> /\ Head(microtasks).kind \in AbortKinds)
          => Surfaces' = Surfaces]_vars
  /\ [](~mounted => (resolveTasks = {} /\ detailTasks = {}
                      /\ listFetch # "pending"
                      /\ metaLoad.pc \in {"done", "aborted"}))

\* C12 witness: the unmount aborted both loads and a resolution, their
\* continuations have run, and the error slot is empty
C12_Witness ==
  /\ ~mounted /\ microtasks = <<>>
  /\ listFetch = "aborted" /\ metaLoad.pc = "aborted"
  /\ versions # <<>> /\ selectedGenName = <<>>
  /\ error = null

\* C13: the answer of the chosen version without a version group, and the
\* answer of its version group without a generation, end the resolution:
\* the resolved generation is empty, the error slot is as it was, and no
\* resolution is in flight any more.
C13_DataAbsenceNotError ==
  [][(\E t \in resolveTasks : VersionOk(t, FALSE) \/ GroupOk(t, <<>>)) =>
       /\ selectedGenName' = <<>>
       /\ error' = error
       /\ resolveTasks' = {}
       /\ detailTasks' = detailTasks]_vars

\* C13 witness: both loads are through with a non-empty index, a game is
\* chosen, its resolution is over with an empty generation and an empty
\* error slot, and the whole species list is offered
C13_Witness ==
  /\ selectedVersionUrl # <<>> /\ resolveTasks = {} /\ microtasks = <<>>
  /\ selectedGenName = <<>> /\ error = null
  /\ ~loadingMeta /\ DOMAIN speciesByGen # {}
  /\ Len(allList) >= 2 /\ filteredList = allList

\* the number of a generation, from the roman numeral of its slug
RomanDigit(c) == IF c = 105 THEN 1 ELSE IF c = 118 THEN 5 ELSE 10

RECURSIVE RomanValue(_)
RomanValue(numeral) ==
  IF numeral = <<>> THEN 0
  ELSE IF Len(numeral) >= 2 /\ RomanDigit(numeral[1]) < RomanDigit(numeral[2])
    THEN RomanValue(Tail(numeral)) - RomanDigit(numeral[1])
    ELSE RomanValue(Tail(numeral)) + RomanDigit(numeral[1])

\* C14: the generation catalog is in release order: of two generations, the
\* one at the smaller position has the smaller number, so that the entries
\* the filter unites for a generation are those of the generations released
\* at or before it.
C14_ReleaseOrder ==
  \A i, j \in 1..Len(generations) :
    i < j => RomanValue(generations[i].name) < RomanValue(generations[j].name)

\* C14 witness: the filter for generation v offers a species that only
\* the entry of generation ix names
C14_Witness ==
  /\ selectedGenName = <<118>>
  /\ <<105,120>> \in DOMAIN speciesByGen /\ <<118>> \in DOMAIN speciesByGen
  /\ \E r \in Range(filteredList) :
       r.name \in speciesByGen[<<105,120>>] /\ r.name \notin speciesByGen[<<118>>]

\* C15: no step removes or replaces an entry of the cache; a step adds an
\* entry under a name only when the detail fetch in flight for that name,
\* the chosen one, is answered, and the entry is the record the upstream
\* serves for that name, which the same step displays.
C15_CacheAppendOnly ==
  [][/\ \A n \in DOMAIN cacheRef :
          n \in DOMAIN cacheRef' /\ cacheRef'[n] = cacheRef[n]
     /\ \A n \in DOMAIN cacheRef' \ DOMAIN cacheRef :
          /\ [name |-> n] \in detailTasks \ detailTasks'
          /\ n = selectedName
          /\ cacheRef'[n] = UpstreamPokemon(n)
          /\ data' = <<cacheRef'[n]>>]_vars

\* C15 witness: the records of two species are in the cache, each under its
\* own name, and the one fetched first is not the one displayed
C15_Witness ==
  /\ Cardinality(DOMAIN cacheRef) >= 2
  /\ \A n \in DOMAIN cacheRef : cacheRef[n].name = n
  /\ data # <<>>
  /\ \E n \in DOMAIN cacheRef : n # data[1].name

\* C16: the resolved generation is empty or the generation that the
\* upstream gives for the chosen game.
C16_ResolvedGenerationCurrent ==
  \/ selectedGenName = <<>>
  \/ /\ selectedVersionUrl # <<>>
     /\ selectedGenName = upstreamGen[selectedVersionUrl[2]]

\* C16 witness: the resolution of the chosen game has failed and none is in
\* flight, while the resolved generation is that of the game chosen before
C16_Witness ==
  /\ selectedVersionUrl # <<>>
  /\ resolveTasks = {} /\ microtasks = <<>>
  /\ error \in {"Version fetch failed", "Version group fetch failed"}
  /\ selectedGenName # <<>>
  /\ selectedGenName # upstreamGen[selectedVersionUrl[2]]
  /\ \E v \in VersionNames : selectedGenName = upstreamGen[v]

\* C17: whenever a detail fetch is in flight (it is the fetch of the chosen
\* species, any other having been aborted) the loading flag is true.
C17_LoadingWhileFetching ==
  detailTasks # {} => loadingPokemon

\* C17 witness: the continuation of the aborted fetch has run, the fetch of
\* the species chosen since is still in flight, and the flag is off
C17_Witness ==
  /\ detailTasks = {[name |-> selectedName]}
  /\ microtasks = <<>>
  /\ ~loadingPokemon

NothingInFlight ==
  /\ listFetch = "done" /\ metaLoad.pc = "done"
  /\ resolveTasks = {} /\ detailTasks = {}
  /\ microtasks = <<>>

Converged ==
  /\ NothingInFlight
  /\ ~loadingPokemon
  /\ selectedName # <<>> => (data # <<>> /\ data[1].name = selectedName)

\* C18: on an upstream that answers every fetch with success, whatever the
\* user selects, from some point on no fetch is in flight, the loading flag
\* of the detail is off and the displayed detail is that of the chosen
\* species.
C18_Convergence == <>[]Converged

\* C18 witness: the user has made all the selections, the records of two
\* species were fetched, a generation is resolved, and the component is at
\* rest showing the chosen species
C18_Witness ==
  /\ Converged
  /\ userEvents = MaxUserEvents
  /\ Cardinality(DOMAIN cacheRef) >= 2
  /\ selectedGenName # <<>>
  /\ selectedName # <<>>

\* C19: the failure of the detail fetch, by status or by transport, puts a
\* message in the error slot and leaves the displayed detail, the cache,
\* the chosen species, the chosen game and the resolved generation as they
\* are; and any step that changes the chosen species to one without a
\* cached record has the fetch for it, and only it, in flight.
C19_DetailFailureFrame ==
  /\ [][(\E t \in detailTasks, kind \in FailureKinds : DetailFail(t, kind)) =>
          /\ error' \in {"Pokemon fetch failed", "Failed to fetch"}
          /\ data' = data /\ cacheRef' = cacheRef
          /\ selectedName' = selectedName
          /\ selectedVersionUrl' = selectedVersionUrl
          /\ selectedGenName' = selectedGenName
          /\ detailTasks' = {}]_vars
  /\ [][(selectedName' # selectedName /\ selectedName' # <<>>
         /\ selectedName' \notin DOMAIN cacheRef)
          => detailTasks' = {[name |-> selectedName']}]_vars

\* C19 witness: the fetch for the chosen species has failed by status: its
\* message is in the slot, nothing is in flight, and the detail displayed
\* is still that of the species chosen before
C19_Witness ==
  /\ error = "Pokemon fetch failed"
  /\ detailTasks = {} /\ microtasks = <<>> /\ ~loadingPokemon
  /\ selectedName \notin DOMAIN cacheRef
  /\ data # <<>> /\ data[1].name # selectedName

\* C20: the generation index is empty or has an entry for each generation
\* of the generation catalog, and for nothing else, also after a metadata
\* load that failed or was aborted among its per-generation fetches.
C20_IndexNeverPartial ==
  \/ DOMAIN speciesByGen = {}
  \/ DOMAIN speciesByGen = Names(generations)

\* C20 witness: the metadata load failed after the answer for one
\* generation and before that for another: the index is empty, and the
\* list offered for the resolved generation is the whole species list
C20_Witness ==
  /\ metaLoad.pc = "done" /\ ~loadingMeta
  /\ DOMAIN metaLoad.map # {}
  /\ DOMAIN metaLoad.map # Names(generations)
  /\ DOMAIN speciesByGen = {}
  /\ selectedGenName \in Names(generations)
  /\ Len(allList) >= 2 /\ filteredList = allList

=============================================================================
